---- MODULE Spec2Model ----
(***************************************************************************)
(* Model of the job orchestration and exclusive model residency manager    *)
(* of ccbell-sound-generator: ModelLoader (services/model_loader.py) and   *)
(* AudioService (services/audio.py), with their callers in api/.           *)
(*                                                                         *)
(* Execution model.  The application runs one asyncio event loop.  Code of *)
(* a coroutine between two suspension points runs without any other        *)
(* coroutine taking a step.  ModelLoader.load_model never suspends (its    *)
(* awaits are of coroutines that do not suspend), so a foreground load     *)
(* occupies the event loop from call to return.  The only code that runs   *)
(* off the event loop and touches the loader's state is _load_model_sync,  *)
(* which load_model_background hands to a thread pool executor: its        *)
(* statements interleave with the statements of the event loop thread.     *)
(* Every access to the loader's shared attributes is therefore a step of   *)
(* its own in both load paths.                                             *)
(***************************************************************************)
EXTENDS Integers, Sequences, FiniteSets, TLC

\* ------------------------------------------------------------------ bounds
\* Number of load requests (load_model and load_model_background calls) made in a run.
MaxCalls == 3
\* Number of jobs submitted in a run.
MaxJobs == 2
\* Number of websocket connections made in a run of SpecJobs.
MaxObservers == 1
\* Number of websocket connections made in a run of SpecHub (one job).
MaxHubObservers == 2
\* Number of publish_release calls made in a run.
MaxPublish == 2

\* ------------------------------------------------------------- constants
\* MODEL_REPOS keys.
Variants == {"small", "1.0"}
\* A model id that is no key of MODEL_REPOS.
UnknownId == "medium"
\* The model ids a caller can pass.
ModelIds == Variants \cup {UnknownId}
BgIds == 1..MaxCalls
\* Python's None.
None == "None"
\* The absent key of _models and _model_configs (handles are numbers).
NoHandle == 0
\* A handle is the object returned by one get_pretrained_model call. Handles
\* are compared for identity only; a new one takes the least name not in use.
Handles == 1..(2 * Cardinality(Variants) + MaxCalls + 3)
\* No caller job (a load_model call whose caller is not followed).
NoJob == 0
\* Job ids (uuid4 strings in the code), in the order of creation.
JobIds == 1..MaxJobs
\* The websocket connections; connection o registers the callback o.
ObsIds == 1..(IF MaxHubObservers > MaxObservers THEN MaxHubObservers
               ELSE MaxObservers)
\* AudioGenerationJob.audio_path is None; the path of job j's file is j.
NoPath == 0

ERR_TORCH == "PyTorch is not installed. Cannot load models."
ERR_KEY == "KeyError"
ERR_UNKNOWN == "Unknown model ID: medium"
ERR_IMPORT == "No module named 'stable_audio_tools'"
ERR_LOAD == "get_pretrained_model failed"
ERR_DEVICE == "model.to(device) failed"

VARIABLES
    loading_states,   \* ModelLoader._loading_states: variant -> LoadingState
    models,           \* ModelLoader._models: variant -> handle, None when the key is absent
    model_configs,    \* ModelLoader._model_configs: variant -> config, None when absent
    current_model,    \* ModelLoader._current_model
    loading_lock,     \* ModelLoader._loading_lock: holder and FIFO waiters
    torch_available,  \* _check_torch(): whether torch can be found
    bg,               \* the load_model_background calls: coroutine and worker thread position
    fg,               \* the load_model call that occupies the event loop, if any
    calls,            \* number of load requests made so far
    jobs,             \* the AudioGenerationJob objects, by job id
    job_store,        \* the keys of AudioService._jobs
    progress_callbacks, \* AudioService._progress_callbacks: job id -> list of callbacks
    files,            \* the audio files in settings.temp_audio_dir, by job id
    torchaudio_available, \* whether `import torchaudio` succeeds
    gen,              \* the generate_audio tasks: position and locals
    ws,               \* the websocket_progress handlers: position and job id
    running,          \* the task that holds the event loop between two of its steps
    notified,         \* per job, the _notify_progress calls made: <<progress, stage>>
    sent,             \* per websocket, the messages handed to send_json
    delete_reply,     \* per job id, the answer of the last DELETE /audio/{job_id}
    github            \* the releases of the repository and the last PublishResponse

rm_vars == <<loading_states, models, model_configs, current_model, loading_lock,
             torch_available, bg, fg, calls>>

job_vars == <<jobs, job_store, progress_callbacks, files, torchaudio_available,
              gen, ws, running, notified, sent, delete_reply, github>>

vars == <<rm_vars, job_vars>>

\* ------------------------------------------------------------ LoadingState
LoadingState(status, progress, stage, error) ==
    [status |-> status, progress |-> progress, stage |-> stage, error |-> error]

\* Progress is kept in percent.
IdleState == LoadingState("idle", 0, None, None)

\* self._loading_states.get(model_id, LoadingState())
StateOf(states, model_id) ==
    IF model_id \in DOMAIN states THEN states[model_id] ELSE IdleState

is_loading(model_id) == StateOf(loading_states, model_id).status = "loading"

is_ready(model_id) == StateOf(loading_states, model_id).status = "ready"

\* `model_id in self._models`
is_loaded(model_id) ==
    model_id \in DOMAIN models /\ models[model_id] # NoHandle

\* get_loading_status(model_id): the ModelLoadingStatus it returns.
get_loading_status(model_id) ==
    [model_id |-> model_id,
     status |-> StateOf(loading_states, model_id).status,
     progress |-> StateOf(loading_states, model_id).progress,
     stage |-> StateOf(loading_states, model_id).stage,
     error |-> StateOf(loading_states, model_id).error]

\* The value of _loading_states after _update_loading_state(...).
update_loading_state(model_id, status, progress, stage, error) ==
    IF model_id \in DOMAIN loading_states
    THEN [loading_states EXCEPT ![model_id] = LoadingState(status, progress, stage, error)]
    ELSE loading_states

\* The sequences list(self._models.keys()) can be: the stored keys, in either
\* insertion order.
KeysOf(m) ==
    LET ks == {v \in Variants : m[v] # NoHandle}
    IN  {q \in UNION {[1..n -> ks] : n \in 0..2} :
            /\ Len(q) = Cardinality(ks)
            /\ \A i, j \in 1..Len(q) : i # j => q[i] # q[j]}

loaded_models == {v \in Variants : models[v] # NoHandle}

\* The status of every slot and whether its model is stored.
Snapshot ==
    [v \in Variants |-> [status |-> loading_states[v].status, stored |-> is_loaded(v)]]

\* The snapshot of a frame that has taken none.
NoSnapshot == [v \in Variants |-> [status |-> None, stored |-> FALSE]]

\* ------------------------------------------------------------------- Init
\* The frame of a load_model call: its position, argument and locals, and what
\* the call has done so far (ready0, h0: the slot and the stored handle at the
\* call; hit: the cache test of line 285 succeeded; evicted, loaded: it has
\* removed a handle, called get_pretrained_model).
\* At pc "returned" and "raised" the call is over and its caller has the result:
\* h is the returned handle, msg the raised message, status_after the slot's
\* status and stale whether h was still stored when the call ended.
\* pre is the Snapshot at the call.
IdleFrame == [pc |-> "idle", model_id |-> None, job |-> NoJob, keys |-> <<>>,
              h |-> NoHandle, msg |-> None, ready0 |-> FALSE, h0 |-> NoHandle,
              hit |-> FALSE, evicted |-> FALSE, loaded |-> FALSE,
              status_after |-> None, stale |-> FALSE, pre |-> NoSnapshot]

\* A load_model_background call: the coroutine's and its worker thread's position.
\* overlap: the call whose load of the same variant was in flight when this call
\* was made, 0 when there was none;
\* seen: the slot's status read under the lock; dup: a load of the same variant
\* was in flight when this call started its own; nloads: its get_pretrained_model calls.
\* For a call made for a POST /models/{model_id}/load request: reply, the status
\* the route answered; during, the earlier request for the same variant that
\* was not yet worked off when this one came, 0 when there was none; fresh, the
\* variant's slot was idle and no request for it had come before.
\* pre is the Snapshot at a direct call.
NoCall == [pc |-> "none", model_id |-> None, keys |-> <<>>, h |-> NoHandle,
           msg |-> None, overlap |-> 0, seen |-> None, dup |-> FALSE, nloads |-> 0,
           reply |-> None, during |-> 0, fresh |-> FALSE, pre |-> NoSnapshot]

\* A call that has returned; what it did is kept.
Done(call) == [NoCall EXCEPT !.pc = "done", !.model_id = call.model_id,
                             !.overlap = call.overlap, !.seen = call.seen,
                             !.nloads = call.nloads, !.reply = call.reply,
                             !.during = call.during, !.fresh = call.fresh]

\* ------------------------------------------------------- jobs: the objects
\* A Python exception: its class and its constructor arguments.
Exception(type, args) == [type |-> type, args |-> args]

\* No exception.
NoException == Exception(None, <<>>)

\* str(e), as BaseException.__str__ and KeyError.__str__ compute it: the empty
\* string without arguments, the argument itself, or its repr for a KeyError.
str(e) ==
    IF Len(e.args) = 0 THEN ""
    ELSE IF e.type = "KeyError" THEN "'" \o e.args[1] \o "'"
    ELSE e.args[1]

\* What the library calls made for a job (the diffusion call, the tensor
\* operations, torchaudio.save) raise when they fail.
LibraryErrors == {Exception("RuntimeError", <<"CUDA out of memory">>),
                  Exception("MemoryError", <<>>)}

\* AudioGenerationJob.__init__; progress is kept in percent.
AudioGenerationJob(model) ==
    [status |-> "queued", progress |-> 0, stage |-> "queued",
     audio_path |-> NoPath, error |-> None, model |-> model]

\* The object of a job id no job was created with.
NoJobObject ==
    [status |-> None, progress |-> 0, stage |-> None,
     audio_path |-> NoPath, error |-> None, model |-> None]

\* A generate_audio task: its position, the arguments of the _notify_progress
\* call it is in (progress, stage, audio_url), the index of that call's loop
\* over the callbacks (i), the callback it awaits (cb), where it goes on after
\* the call (then) and the exception it handles or has raised (e).
\* About its last _notify_progress call it also keeps: the callbacks listed when
\* the loop was entered (reg0), the callbacks invoked (called), those
\* registered and unregistered during the call (added, removed), those whose
\* send failed (failed), and whether the job was deleted during the call.
\* resident0: the other variants that were stored and ready when the task
\* called load_model.
NoTask == [pc |-> "none", progress |-> 0, stage |-> None, audio_url |-> NoPath,
           i |-> 0, cb |-> 0, then |-> None, e |-> NoException,
           reg0 |-> <<>>, called |-> <<>>, added |-> {}, removed |-> {},
           failed |-> {}, deleted |-> FALSE, resident0 |-> {}]

\* A websocket_progress handler: its position and job id, and the status the
\* job had when the handler looked it up (None for no such job).
NoSocket == [pc |-> "none", job_id |-> NoJob, status0 |-> None]

\* A message handed to websocket.send_json (absent keys are None, NoPath).
Message(progress, stage, audio_url, error) ==
    [progress |-> progress, stage |-> stage, audio_url |-> audio_url,
     error |-> error]

\* An entry of _progress_callbacks: whether the key is there, and the list
\* object (which a loop over it keeps alive after the key is deleted).
NoCallbacks == [present |-> FALSE, list |-> <<>>]

\* ---------------------------------------------------------- GitHubService
\* A PublishResponse: status is "ok" for success=True and "failed" for
\* success=False; created tells whether the call created a release, unused
\* whether it found the tag unused, packed the jobs whose files it packed.
PublishResponse(status, error, created, unused, packed) ==
    [status |-> status, error |-> error, created |-> created, unused |-> unused,
     packed |-> packed]

\* The repository before any publish_release call: no release, no asset.
NoPublish == [releases |-> {}, assets |-> {}, n |-> 0,
              reply |-> PublishResponse(None, None, FALSE, FALSE, {})]

Init ==
    /\ loading_states = [v \in Variants |-> IdleState]
    /\ models = [v \in Variants |-> NoHandle]
    /\ model_configs = [v \in Variants |-> NoHandle]
    /\ current_model = None
    /\ loading_lock = [holder |-> 0, waiters |-> <<>>]
    /\ torch_available \in BOOLEAN
    /\ bg = [b \in BgIds |-> NoCall]
    /\ fg = IdleFrame
    /\ calls = 0
    /\ jobs = [j \in JobIds |-> NoJobObject]
    /\ job_store = {}
    /\ progress_callbacks = [j \in JobIds |-> NoCallbacks]
    /\ files = {}
    /\ torchaudio_available \in BOOLEAN
    /\ gen = [j \in JobIds |-> NoTask]
    /\ ws = [o \in ObsIds |-> NoSocket]
    /\ running = NoJob
    /\ notified = [j \in JobIds |-> <<>>]
    /\ sent = [o \in ObsIds |-> <<>>]
    /\ delete_reply = [j \in JobIds |-> None]
    /\ github = NoPublish

\* ------------------------------------------------- load_model (foreground)
\* The event loop runs no coroutine step while a load_model call is under way.
LoopFree == fg.pc = "idle" /\ running = NoJob

\* load_model returns (model, model_config) to its caller.
FgReturn(handle, states_after) ==
    fg' = [fg EXCEPT !.pc = "returned", !.h = handle, !.keys = <<>>,
                     !.status_after = states_after[fg.model_id].status,
                     !.stale = models[fg.model_id] # handle]

\* load_model raises to its caller.
FgRaise(msg, states_after) ==
    fg' = [fg EXCEPT !.pc = "raised", !.msg = msg, !.keys = <<>>,
                     !.status_after = states_after[fg.model_id].status]

\* The handles some variable refers to.
InUse ==
    {models[v] : v \in Variants} \cup {model_configs[v] : v \in Variants}
    \cup {fg.h, fg.h0} \cup {bg[b].h : b \in BgIds}

\* The handle a get_pretrained_model call returns: a new object.
NewHandle == CHOOSE h \in Handles : h \notin InUse

\* Where the unload loop goes after the key at the head of keys is done.
AfterKey(keys, after) == IF Len(keys) > 1 THEN "u_check" ELSE after

\* load_model(model_id), lines 265-291: the torch check, the test of the model
\* id against MODEL_REPOS (it raises ValueError), then the cache test
\* `model_id in self._models`.
load_model_call(model_id, job) ==
    /\ fg.pc = "idle"
    /\ calls < MaxCalls
    /\ calls' = calls + 1
    /\ LET frame == [IdleFrame EXCEPT !.model_id = model_id, !.job = job,
                         !.pre = Snapshot,
                         !.ready0 = is_ready(model_id),
                         !.h0 = IF is_loaded(model_id) THEN models[model_id]
                                ELSE NoHandle]
       IN  IF ~torch_available
           THEN fg' = [frame EXCEPT !.pc = "raised", !.msg = ERR_TORCH,
                           !.status_after = StateOf(loading_states, model_id).status]
           ELSE IF model_id \notin Variants
           THEN fg' = [frame EXCEPT !.pc = "raised", !.msg = ERR_UNKNOWN,
                           !.status_after = StateOf(loading_states, model_id).status]
           ELSE fg' = [frame EXCEPT !.pc = IF is_loaded(model_id)
                                           THEN "hit_state" ELSE "unload_keys",
                                    !.hit = is_loaded(model_id)]
    /\ UNCHANGED <<loading_states, models, model_configs, current_model,
                   loading_lock, torch_available, bg>>

\* A load_model call by a caller that is not followed further.
AcquireCall ==
    /\ LoopFree
    /\ \E model_id \in Variants : load_model_call(model_id, NoJob)
    /\ UNCHANGED job_vars

\* That caller goes on after the call; the event loop is free again.
AcquireDone ==
    /\ fg.pc \in {"returned", "raised"}
    /\ fg.job = NoJob
    /\ fg' = IdleFrame
    /\ UNCHANGED <<loading_states, models, model_configs, current_model,
                   loading_lock, torch_available, bg, calls>>
    /\ UNCHANGED job_vars

\* line 287: the cache hit marks the slot ready.
FgHitState ==
    /\ fg.pc = "hit_state"
    /\ loading_states' = update_loading_state(fg.model_id, "ready", 100, "complete", None)
    /\ fg' = [fg EXCEPT !.pc = "hit_read_model"]
    /\ UNCHANGED <<models, model_configs, current_model, loading_lock,
                   torch_available, bg, calls>>
    /\ UNCHANGED job_vars

\* line 288, first subscript: self._models[model_id].
FgHitReadModel ==
    /\ fg.pc = "hit_read_model"
    /\ IF models[fg.model_id] = NoHandle
       THEN FgRaise(ERR_KEY, loading_states)
       ELSE /\ fg' = [fg EXCEPT !.pc = "hit_read_config", !.h = models[fg.model_id]]
    /\ UNCHANGED <<loading_states, models, model_configs, current_model,
                   loading_lock, torch_available, bg, calls>>
    /\ UNCHANGED job_vars

\* line 288, second subscript: self._model_configs[model_id], and the return.
FgHitReadConfig ==
    /\ fg.pc = "hit_read_config"
    /\ IF model_configs[fg.model_id] = NoHandle
       THEN FgRaise(ERR_KEY, loading_states)
       ELSE FgReturn(fg.h, loading_states)
    /\ UNCHANGED <<loading_states, models, model_configs, current_model,
                   loading_lock, torch_available, bg, calls>>
    /\ UNCHANGED job_vars

\* lines 338-341: _unload_all_models takes list(self._models.keys()).
FgUnloadKeys ==
    /\ fg.pc = "unload_keys"
    /\ \E ks \in KeysOf(models) :
          fg' = [fg EXCEPT !.keys = ks,
                           !.pc = IF ks = <<>> THEN "init" ELSE "u_check"]
    /\ UNCHANGED <<loading_states, models, model_configs, current_model,
                   loading_lock, torch_available, bg, calls>>
    /\ UNCHANGED job_vars

\* lines 354-356: _unload_model_sync returns when the key is not stored.
FgUnloadCheck ==
    /\ fg.pc = "u_check"
    /\ IF models[Head(fg.keys)] = NoHandle
       THEN fg' = [fg EXCEPT !.keys = Tail(fg.keys), !.pc = AfterKey(fg.keys, "init")]
       ELSE fg' = [fg EXCEPT !.pc = "u_del_model"]
    /\ UNCHANGED <<loading_states, models, model_configs, current_model,
                   loading_lock, torch_available, bg, calls>>
    /\ UNCHANGED job_vars

\* line 361: del self._models[model_id]. The unload runs before the try block
\* of load_model, so a KeyError reaches the caller and no slot is set to error.
FgUnloadDelModel ==
    /\ fg.pc = "u_del_model"
    /\ IF models[Head(fg.keys)] = NoHandle
       THEN /\ FgRaise(ERR_KEY, loading_states)
            /\ UNCHANGED models
       ELSE /\ models' = [models EXCEPT ![Head(fg.keys)] = NoHandle]
            /\ fg' = [fg EXCEPT !.pc = "u_del_config", !.evicted = TRUE]
    /\ UNCHANGED <<loading_states, model_configs, current_model,
                   loading_lock, torch_available, bg, calls>>
    /\ UNCHANGED job_vars

\* line 362: del self._model_configs[model_id].
FgUnloadDelConfig ==
    /\ fg.pc = "u_del_config"
    /\ IF model_configs[Head(fg.keys)] = NoHandle
       THEN /\ FgRaise(ERR_KEY, loading_states)
            /\ UNCHANGED model_configs
       ELSE /\ model_configs' = [model_configs EXCEPT ![Head(fg.keys)] = NoHandle]
            /\ fg' = [fg EXCEPT !.pc = "u_current"]
    /\ UNCHANGED <<loading_states, models, current_model,
                   loading_lock, torch_available, bg, calls>>
    /\ UNCHANGED job_vars

\* lines 364-365.
FgUnloadCurrent ==
    /\ fg.pc = "u_current"
    /\ current_model' = IF current_model = Head(fg.keys) THEN None ELSE current_model
    /\ fg' = [fg EXCEPT !.pc = "u_idle"]
    /\ UNCHANGED <<loading_states, models, model_configs,
                   loading_lock, torch_available, bg, calls>>
    /\ UNCHANGED job_vars

\* The unload of a model without line 368: the slot is not reset.
FgUnloadIdle_Skipped ==
    /\ fg.pc = "u_idle"
    /\ fg' = [fg EXCEPT !.keys = Tail(fg.keys), !.pc = AfterKey(fg.keys, "init")]
    /\ UNCHANGED <<loading_states, models, model_configs, current_model,
                   loading_lock, torch_available, bg, calls>>
    /\ UNCHANGED job_vars

\* line 368: the evicted slot is reset to idle.
FgUnloadIdle ==
    /\ fg.pc = "u_idle"
    /\ loading_states' = update_loading_state(Head(fg.keys), "idle", 0, None, None)
    /\ fg' = [fg EXCEPT !.keys = Tail(fg.keys), !.pc = AfterKey(fg.keys, "init")]
    /\ UNCHANGED <<models, model_configs, current_model,
                   loading_lock, torch_available, bg, calls>>
    /\ UNCHANGED job_vars

\* line 294.
FgInit ==
    /\ fg.pc = "init"
    /\ loading_states' = update_loading_state(fg.model_id, "loading", 10, "initializing", None)
    /\ fg' = [fg EXCEPT !.pc = "weights_state"]
    /\ UNCHANGED <<models, model_configs, current_model,
                   loading_lock, torch_available, bg, calls>>
    /\ UNCHANGED job_vars

\* lines 298-303: the import of stable_audio_tools may raise (lines 331-336).
FgWeightsState ==
    /\ fg.pc = "weights_state"
    /\ \/ /\ loading_states' =
                update_loading_state(fg.model_id, "loading", 30, "loading_weights", None)
          /\ fg' = [fg EXCEPT !.pc = "load"]
       \/ /\ loading_states' = update_loading_state(fg.model_id, "error", 0, None, ERR_IMPORT)
          /\ FgRaise(ERR_IMPORT, loading_states')
    /\ UNCHANGED <<models, model_configs, current_model,
                   loading_lock, torch_available, bg, calls>>
    /\ UNCHANGED job_vars

\* line 307: get_pretrained_model returns a new handle or raises.
FgLoad ==
    /\ fg.pc = "load"
    /\ \/ /\ fg' = [fg EXCEPT !.pc = "device_state", !.h = NewHandle, !.loaded = TRUE]
          /\ UNCHANGED loading_states
       \/ /\ loading_states' = update_loading_state(fg.model_id, "error", 0, None, ERR_LOAD)
          /\ fg' = [fg EXCEPT !.pc = "raised", !.msg = ERR_LOAD, !.loaded = TRUE,
                              !.status_after = "error"]
    /\ UNCHANGED <<models, model_configs, current_model,
                   loading_lock, torch_available, bg, calls>>
    /\ UNCHANGED job_vars

\* line 310.
FgDeviceState ==
    /\ fg.pc = "device_state"
    /\ loading_states' =
          update_loading_state(fg.model_id, "loading", 80, "moving_to_device", None)
    /\ fg' = [fg EXCEPT !.pc = "store_model"]
    /\ UNCHANGED <<models, model_configs, current_model,
                   loading_lock, torch_available, bg, calls>>
    /\ UNCHANGED job_vars

\* lines 313-317: model.to(device) may raise; then self._models[model_id] = model.
FgStoreModel ==
    /\ fg.pc = "store_model"
    /\ \/ /\ models' = [models EXCEPT ![fg.model_id] = fg.h]
          /\ fg' = [fg EXCEPT !.pc = "store_config"]
          /\ UNCHANGED loading_states
       \/ /\ loading_states' = update_loading_state(fg.model_id, "error", 0, None, ERR_DEVICE)
          /\ FgRaise(ERR_DEVICE, loading_states')
          /\ UNCHANGED models
    /\ UNCHANGED <<model_configs, current_model,
                   loading_lock, torch_available, bg, calls>>
    /\ UNCHANGED job_vars

\* line 318.
FgStoreConfig ==
    /\ fg.pc = "store_config"
    /\ model_configs' = [model_configs EXCEPT ![fg.model_id] = fg.h]
    /\ fg' = [fg EXCEPT !.pc = "store_current"]
    /\ UNCHANGED <<loading_states, models, current_model,
                   loading_lock, torch_available, bg, calls>>
    /\ UNCHANGED job_vars

\* line 319.
FgStoreCurrent ==
    /\ fg.pc = "store_current"
    /\ current_model' = fg.model_id
    /\ fg' = [fg EXCEPT !.pc = "ready"]
    /\ UNCHANGED <<loading_states, models, model_configs,
                   loading_lock, torch_available, bg, calls>>
    /\ UNCHANGED job_vars

\* lines 327-329.
FgReady ==
    /\ fg.pc = "ready"
    /\ loading_states' = update_loading_state(fg.model_id, "ready", 100, "complete", None)
    /\ FgReturn(fg.h, loading_states')
    /\ UNCHANGED <<models, model_configs, current_model,
                   loading_lock, torch_available, bg, calls>>
    /\ UNCHANGED job_vars

\* The steps of a load_model call after the call itself.
FgStep ==
    \/ FgHitState \/ FgHitReadModel \/ FgHitReadConfig
    \/ FgUnloadKeys \/ FgUnloadCheck \/ FgUnloadDelModel \/ FgUnloadDelConfig
    \/ FgUnloadCurrent \/ FgUnloadIdle
    \/ FgInit \/ FgWeightsState \/ FgLoad \/ FgDeviceState
    \/ FgStoreModel \/ FgStoreConfig \/ FgStoreCurrent \/ FgReady

\* ------------------------------------- load_model_background (background)
\* The positions of a call whose worker thread is inside _load_model_sync.
ThreadPcs == {"t_start", "t_hit_state", "t_init", "t_unload_keys", "t_u_check",
              "t_u_del_model", "t_u_del_config", "t_u_current", "t_u_idle",
              "t_download_state", "t_weights_state", "t_load", "t_device_state",
              "t_store_model", "t_store_config", "t_store_current", "t_ready",
              "t_except"}

\* A load of model_id is in flight: a load_model call for it is under way, or a
\* worker thread is inside _load_model_sync for it.
LoadInFlight(model_id) ==
    \/ fg.pc # "idle" /\ fg.model_id = model_id
    \/ \E b \in BgIds : bg[b].pc \in ThreadPcs /\ bg[b].model_id = model_id

\* The background call whose worker thread is loading model_id, 0 when there is
\* none (no load_model call is under way when a coroutine takes a step).
InFlightCall(model_id) ==
    IF \E b \in BgIds : bg[b].pc \in ThreadPcs /\ bg[b].model_id = model_id
    THEN CHOOSE b \in BgIds : bg[b].pc \in ThreadPcs /\ bg[b].model_id = model_id
    ELSE 0

\* asyncio.Lock.release: the lock passes to the first waiter, which resumes
\* inside the `async with` block.
Release(bg_after) ==
    IF loading_lock.waiters = <<>>
    THEN /\ loading_lock' = [holder |-> 0, waiters |-> <<>>]
         /\ bg' = bg_after
    ELSE /\ loading_lock' = [holder |-> Head(loading_lock.waiters),
                             waiters |-> Tail(loading_lock.waiters)]
         /\ bg' = [bg_after EXCEPT ![Head(loading_lock.waiters)].pc = "locked"]

\* UnderLock without the test of line 185: the load is started whatever the slot says.
UnderLock_Unchecked(b, call) ==
    /\ bg' = [bg EXCEPT ![b] = [call EXCEPT !.pc = "t_start",
                   !.seen = StateOf(loading_states, call.model_id).status,
                   !.dup = LoadInFlight(call.model_id)]]
    /\ loading_lock' = [loading_lock EXCEPT !.holder = b]

\* lines 184-194, with the lock held by call b: skip when the slot is loading or
\* ready, else hand _load_model_sync to the executor and wait for it.
UnderLock(b, call) ==
    IF is_loading(call.model_id) \/ is_ready(call.model_id)
    THEN Release([bg EXCEPT ![b] =
                     Done([call EXCEPT !.seen = StateOf(loading_states, call.model_id).status])])
    ELSE /\ bg' = [bg EXCEPT ![b] = [call EXCEPT !.pc = "t_start",
                        !.seen = StateOf(loading_states, call.model_id).status,
                        !.dup = LoadInFlight(call.model_id)]]
         /\ loading_lock' = [loading_lock EXCEPT !.holder = b]

\* `async with self._loading_lock`, line 183: the call takes the lock when it
\* is free and goes on without suspending, else it waits for it.
EnterLock(b, call) ==
    IF loading_lock.holder = 0
    THEN UnderLock(b, call)
    ELSE /\ bg' = [bg EXCEPT ![b] = [call EXCEPT !.pc = "wait_lock"]]
         /\ loading_lock' = [loading_lock EXCEPT !.waiters = Append(@, b)]

\* load_model_background(model_id) is called (lines 176-183): it takes the lock
\* when it is free and goes on without suspending, else it waits for it.
load_model_background(b, model_id) ==
    /\ LoopFree
    /\ calls < MaxCalls
    /\ calls' = calls + 1
    /\ bg[b].pc = "none"
    /\ \A c \in BgIds : c < b => bg[c].pc # "none"
    /\ EnterLock(b, [NoCall EXCEPT !.model_id = model_id,
                                   !.overlap = InFlightCall(model_id),
                                   !.pre = Snapshot])
    /\ UNCHANGED <<loading_states, models, model_configs, current_model,
                   torch_available, fg>>

BgCall ==
    /\ \E b \in BgIds, model_id \in Variants : load_model_background(b, model_id)
    /\ UNCHANGED job_vars

\* The earlier POST /models/{model_id}/load request whose background task has
\* not returned yet, 0 when there is none.
PendingRequest(model_id) ==
    IF \E b \in BgIds : bg[b].model_id = model_id /\ bg[b].pc \notin {"none", "done"}
    THEN CHOOSE b \in BgIds :
             bg[b].model_id = model_id /\ bg[b].pc \notin {"none", "done"}
    ELSE 0

\* POST /models/{model_id}/load for a known variant, routes.py 66-88: answered
\* already_loading or already_ready by the slot's status, else
\* load_model_background is added as a background task and the answer is
\* loading_started.
PostLoad(b, model_id) ==
    /\ LoopFree
    /\ calls < MaxCalls
    /\ calls' = calls + 1
    /\ bg[b].pc = "none"
    /\ \A c \in BgIds : c < b => bg[c].pc # "none"
    /\ LET status == loading_states[model_id].status
           call == [NoCall EXCEPT
                       !.model_id = model_id,
                       !.during = PendingRequest(model_id),
                       !.fresh = /\ status = "idle"
                                 /\ \A c \in BgIds : bg[c].model_id # model_id]
       IN  bg' = [bg EXCEPT ![b] =
                     IF status = "loading"
                     THEN Done([call EXCEPT !.reply = "already_loading"])
                     ELSE IF status = "ready"
                     THEN Done([call EXCEPT !.reply = "already_ready"])
                     ELSE [call EXCEPT !.pc = "scheduled",
                                       !.reply = "loading_started"]]
    /\ UNCHANGED <<loading_states, models, model_configs, current_model,
                   loading_lock, torch_available, fg, job_vars>>

\* The background task of a request starts: load_model_background, lines 176-183.
BgTaskStart(b) ==
    /\ LoopFree
    /\ bg[b].pc = "scheduled"
    /\ EnterLock(b, [bg[b] EXCEPT !.overlap = InFlightCall(bg[b].model_id)])
    /\ UNCHANGED <<loading_states, models, model_configs, current_model,
                   torch_available, fg, calls, job_vars>>

\* A waiting call was given the lock and resumes at line 185.
BgLocked(b) ==
    /\ LoopFree
    /\ bg[b].pc = "locked"
    /\ UnderLock(b, bg[b])
    /\ UNCHANGED <<loading_states, models, model_configs, current_model,
                   torch_available, fg, calls>>
    /\ UNCHANGED job_vars

\* The coroutine returns without leaving the `async with` block: the lock stays held.
BgFinish_Holding(b) ==
    /\ LoopFree
    /\ bg[b].pc = "t_done"
    /\ bg' = [bg EXCEPT ![b] = Done(bg[b])]
    /\ UNCHANGED <<loading_states, models, model_configs, current_model,
                   loading_lock, torch_available, fg, calls>>
    /\ UNCHANGED job_vars

\* The executor's future is done: the coroutine leaves the `async with` block,
\* releases the lock and returns.
BgFinish(b) ==
    /\ LoopFree
    /\ bg[b].pc = "t_done"
    /\ Release([bg EXCEPT ![b] = Done(bg[b])])
    /\ UNCHANGED <<loading_states, models, model_configs, current_model,
                   torch_available, fg, calls>>
    /\ UNCHANGED job_vars

\* ---------------------------------------- _load_model_sync (worker thread)
\* lines 200-216: the torch check, the test of the model id against MODEL_REPOS
\* and the cache test.
ThreadStart(b) ==
    /\ bg[b].pc = "t_start"
    /\ IF ~torch_available
       THEN /\ loading_states' =
                  update_loading_state(bg[b].model_id, "error", 0, None, ERR_TORCH)
            /\ bg' = [bg EXCEPT ![b].pc = "t_done"]
       ELSE IF bg[b].model_id \notin Variants
       THEN /\ loading_states' =
                  update_loading_state(bg[b].model_id, "error", 0, None, ERR_UNKNOWN)
            /\ bg' = [bg EXCEPT ![b].pc = "t_done"]
       ELSE /\ bg' = [bg EXCEPT ![b].pc = IF is_loaded(bg[b].model_id)
                                          THEN "t_hit_state" ELSE "t_init"]
            /\ UNCHANGED loading_states
    /\ UNCHANGED <<models, model_configs, current_model, loading_lock,
                   torch_available, fg, calls>>
    /\ UNCHANGED job_vars

\* line 215.
ThreadHitState(b) ==
    /\ bg[b].pc = "t_hit_state"
    /\ loading_states' = update_loading_state(bg[b].model_id, "ready", 100, "complete", None)
    /\ bg' = [bg EXCEPT ![b].pc = "t_done"]
    /\ UNCHANGED <<models, model_configs, current_model, loading_lock,
                   torch_available, fg, calls>>
    /\ UNCHANGED job_vars

\* line 219: the slot is set to loading before the other models are unloaded.
ThreadInit(b) ==
    /\ bg[b].pc = "t_init"
    /\ loading_states' =
          update_loading_state(bg[b].model_id, "loading", 10, "initializing", None)
    /\ bg' = [bg EXCEPT ![b].pc = "t_unload_keys"]
    /\ UNCHANGED <<models, model_configs, current_model, loading_lock,
                   torch_available, fg, calls>>
    /\ UNCHANGED job_vars

\* lines 343-346: _unload_all_models_sync takes list(self._models.keys()).
ThreadUnloadKeys(b) ==
    /\ bg[b].pc = "t_unload_keys"
    /\ \E ks \in KeysOf(models) :
          bg' = [bg EXCEPT ![b].keys = ks,
                           ![b].pc = IF ks = <<>> THEN "t_download_state" ELSE "t_u_check"]
    /\ UNCHANGED <<loading_states, models, model_configs, current_model, loading_lock,
                   torch_available, fg, calls>>
    /\ UNCHANGED job_vars

\* lines 354-356.
ThreadUnloadCheck(b) ==
    /\ bg[b].pc = "t_u_check"
    /\ IF models[Head(bg[b].keys)] = NoHandle
       THEN bg' = [bg EXCEPT ![b].keys = Tail(bg[b].keys),
                             ![b].pc = IF Len(bg[b].keys) > 1
                                       THEN "t_u_check" ELSE "t_download_state"]
       ELSE bg' = [bg EXCEPT ![b].pc = "t_u_del_model"]
    /\ UNCHANGED <<loading_states, models, model_configs, current_model, loading_lock,
                   torch_available, fg, calls>>
    /\ UNCHANGED job_vars

\* line 361; a KeyError is caught at line 259.
ThreadUnloadDelModel(b) ==
    /\ bg[b].pc = "t_u_del_model"
    /\ IF models[Head(bg[b].keys)] = NoHandle
       THEN /\ bg' = [bg EXCEPT ![b].pc = "t_except", ![b].msg = ERR_KEY]
            /\ UNCHANGED models
       ELSE /\ models' = [models EXCEPT ![Head(bg[b].keys)] = NoHandle]
            /\ bg' = [bg EXCEPT ![b].pc = "t_u_del_config"]
    /\ UNCHANGED <<loading_states, model_configs, current_model, loading_lock,
                   torch_available, fg, calls>>
    /\ UNCHANGED job_vars

\* line 362; a KeyError is caught at line 259.
ThreadUnloadDelConfig(b) ==
    /\ bg[b].pc = "t_u_del_config"
    /\ IF model_configs[Head(bg[b].keys)] = NoHandle
       THEN /\ bg' = [bg EXCEPT ![b].pc = "t_except", ![b].msg = ERR_KEY]
            /\ UNCHANGED model_configs
       ELSE /\ model_configs' = [model_configs EXCEPT ![Head(bg[b].keys)] = NoHandle]
            /\ bg' = [bg EXCEPT ![b].pc = "t_u_current"]
    /\ UNCHANGED <<loading_states, models, current_model, loading_lock,
                   torch_available, fg, calls>>
    /\ UNCHANGED job_vars

\* lines 364-365.
ThreadUnloadCurrent(b) ==
    /\ bg[b].pc = "t_u_current"
    /\ current_model' = IF current_model = Head(bg[b].keys) THEN None ELSE current_model
    /\ bg' = [bg EXCEPT ![b].pc = "t_u_idle"]
    /\ UNCHANGED <<loading_states, models, model_configs, loading_lock,
                   torch_available, fg, calls>>
    /\ UNCHANGED job_vars

\* line 368.
ThreadUnloadIdle(b) ==
    /\ bg[b].pc = "t_u_idle"
    /\ loading_states' = update_loading_state(Head(bg[b].keys), "idle", 0, None, None)
    /\ bg' = [bg EXCEPT ![b].keys = Tail(bg[b].keys),
                        ![b].pc = IF Len(bg[b].keys) > 1
                                  THEN "t_u_check" ELSE "t_download_state"]
    /\ UNCHANGED <<models, model_configs, current_model, loading_lock,
                   torch_available, fg, calls>>
    /\ UNCHANGED job_vars

\* line 227.
ThreadDownloadState(b) ==
    /\ bg[b].pc = "t_download_state"
    /\ loading_states' =
          update_loading_state(bg[b].model_id, "loading", 20, "downloading", None)
    /\ bg' = [bg EXCEPT ![b].pc = "t_weights_state"]
    /\ UNCHANGED <<models, model_configs, current_model, loading_lock,
                   torch_available, fg, calls>>
    /\ UNCHANGED job_vars

\* lines 230-232: the import of stable_audio_tools may raise (lines 259-263).
ThreadWeightsState(b) ==
    /\ bg[b].pc = "t_weights_state"
    /\ \/ /\ loading_states' =
                update_loading_state(bg[b].model_id, "loading", 30, "loading_weights", None)
          /\ bg' = [bg EXCEPT ![b].pc = "t_load"]
       \/ /\ loading_states' =
                update_loading_state(bg[b].model_id, "error", 0, None, ERR_IMPORT)
          /\ bg' = [bg EXCEPT ![b].pc = "t_done"]
    /\ UNCHANGED <<models, model_configs, current_model, loading_lock,
                   torch_available, fg, calls>>
    /\ UNCHANGED job_vars

\* line 236: get_pretrained_model returns a new handle or raises.
ThreadLoad(b) ==
    /\ bg[b].pc = "t_load"
    /\ \/ /\ bg' = [bg EXCEPT ![b].pc = "t_device_state", ![b].h = NewHandle,
                              ![b].nloads = @ + 1]
          /\ UNCHANGED loading_states
       \/ /\ loading_states' =
                update_loading_state(bg[b].model_id, "error", 0, None, ERR_LOAD)
          /\ bg' = [bg EXCEPT ![b].pc = "t_done", ![b].nloads = @ + 1]
    /\ UNCHANGED <<models, model_configs, current_model, loading_lock,
                   torch_available, fg, calls>>
    /\ UNCHANGED job_vars

\* line 239.
ThreadDeviceState(b) ==
    /\ bg[b].pc = "t_device_state"
    /\ loading_states' =
          update_loading_state(bg[b].model_id, "loading", 80, "moving_to_device", None)
    /\ bg' = [bg EXCEPT ![b].pc = "t_store_model"]
    /\ UNCHANGED <<models, model_configs, current_model, loading_lock,
                   torch_available, fg, calls>>
    /\ UNCHANGED job_vars

\* lines 242-246: model.to(device) may raise; then self._models[model_id] = model.
ThreadStoreModel(b) ==
    /\ bg[b].pc = "t_store_model"
    /\ \/ /\ models' = [models EXCEPT ![bg[b].model_id] = bg[b].h]
          /\ bg' = [bg EXCEPT ![b].pc = "t_store_config"]
          /\ UNCHANGED loading_states
       \/ /\ loading_states' =
                update_loading_state(bg[b].model_id, "error", 0, None, ERR_DEVICE)
          /\ bg' = [bg EXCEPT ![b].pc = "t_done"]
          /\ UNCHANGED models
    /\ UNCHANGED <<model_configs, current_model, loading_lock,
                   torch_available, fg, calls>>
    /\ UNCHANGED job_vars

\* line 247.
ThreadStoreConfig(b) ==
    /\ bg[b].pc = "t_store_config"
    /\ model_configs' = [model_configs EXCEPT ![bg[b].model_id] = bg[b].h]
    /\ bg' = [bg EXCEPT ![b].pc = "t_store_current"]
    /\ UNCHANGED <<loading_states, models, current_model, loading_lock,
                   torch_available, fg, calls>>
    /\ UNCHANGED job_vars

\* line 248.
ThreadStoreCurrent(b) ==
    /\ bg[b].pc = "t_store_current"
    /\ current_model' = bg[b].model_id
    /\ bg' = [bg EXCEPT ![b].pc = "t_ready"]
    /\ UNCHANGED <<loading_states, models, model_configs, loading_lock,
                   torch_available, fg, calls>>
    /\ UNCHANGED job_vars

\* line 256.
ThreadReady(b) ==
    /\ bg[b].pc = "t_ready"
    /\ loading_states' = update_loading_state(bg[b].model_id, "ready", 100, "complete", None)
    /\ bg' = [bg EXCEPT ![b].pc = "t_done"]
    /\ UNCHANGED <<models, model_configs, current_model, loading_lock,
                   torch_available, fg, calls>>
    /\ UNCHANGED job_vars

\* lines 259-263: the handler of an exception raised by the unload.
ThreadExcept(b) ==
    /\ bg[b].pc = "t_except"
    /\ loading_states' = update_loading_state(bg[b].model_id, "error", 0, None, bg[b].msg)
    /\ bg' = [bg EXCEPT ![b].pc = "t_done"]
    /\ UNCHANGED <<models, model_configs, current_model, loading_lock,
                   torch_available, fg, calls>>
    /\ UNCHANGED job_vars

\* The steps of the worker thread of call b.
ThreadStep(b) ==
    \/ ThreadStart(b) \/ ThreadHitState(b) \/ ThreadInit(b)
    \/ ThreadUnloadKeys(b) \/ ThreadUnloadCheck(b) \/ ThreadUnloadDelModel(b)
    \/ ThreadUnloadDelConfig(b) \/ ThreadUnloadCurrent(b) \/ ThreadUnloadIdle(b)
    \/ ThreadDownloadState(b) \/ ThreadWeightsState(b) \/ ThreadLoad(b)
    \/ ThreadDeviceState(b) \/ ThreadStoreModel(b) \/ ThreadStoreConfig(b)
    \/ ThreadStoreCurrent(b) \/ ThreadReady(b) \/ ThreadExcept(b)

\* ------------------------------------------ audio service: jobs and callbacks
\* Task j holds the event loop: it is between two suspension points.
Holds(j) == fg.pc = "idle" /\ running = j

ERR_AUDIO_TORCH == "PyTorch/torchaudio not installed"
ERR_JOB_NOT_FOUND == "Job not found"
ERR_GEN_IMPORT == "No module named 'stable_audio_tools.inference'"

\* The variables no step of a generate_audio task changes.
task_frame == <<job_store, torchaudio_available, github, ws, delete_reply>>

\* create_job: a new job object under a new id.
create_job(j, model) ==
    /\ jobs' = [jobs EXCEPT ![j] = AudioGenerationJob(model)]
    /\ job_store' = job_store \cup {j}

\* register_progress_callback(job_id, callback)
register_progress_callback(j, o) ==
    progress_callbacks' = [progress_callbacks EXCEPT ![j] =
        [present |-> TRUE,
         list |-> Append(IF @.present THEN @.list ELSE <<>>, o)]]

\* unregister_progress_callback emptying the list of the job.
unregister_progress_callback_All(j, o) ==
    progress_callbacks' = [progress_callbacks EXCEPT ![j] =
        IF @.present THEN [present |-> TRUE, list |-> <<>>] ELSE @]

\* unregister_progress_callback(job_id, callback): list.remove, a missing key
\* or callback is no error.
unregister_progress_callback(j, o) ==
    progress_callbacks' = [progress_callbacks EXCEPT ![j] =
        IF @.present
        THEN [present |-> TRUE, list |-> SelectSeq(@.list, LAMBDA c : c # o)]
        ELSE @]

\* The frame of task j on entering _notify_progress: the arguments, and the loop
\* of lines 83-84 at its first element if the job id is in _progress_callbacks.
NotifyFrame(frame, j, progress, stage, audio_url, then) ==
    [frame EXCEPT !.pc = IF progress_callbacks[j].present
                         THEN "cb_iter" ELSE then,
                  !.progress = progress, !.stage = stage,
                  !.audio_url = audio_url, !.i = 1, !.then = then,
                  !.reg0 = IF progress_callbacks[j].present
                           THEN progress_callbacks[j].list ELSE <<>>,
                  !.called = <<>>, !.added = {}, !.removed = {},
                  !.failed = {}, !.deleted = FALSE]

\* _notify_progress without lines 78-80: the progress and stage are not stored.
notify_progress_unstored(j, js, progress, stage, audio_url, then) ==
    /\ jobs' = js
    /\ notified' = [notified EXCEPT ![j] = Append(@, <<progress, stage>>)]
    /\ gen' = [gen EXCEPT ![j] = NotifyFrame(@, j, progress, stage, audio_url,
                                             then)]
    /\ running' = j

\* _notify_progress(job_id, progress, stage) up to its loop, lines 77-84, called
\* by task j with the job objects as the statements before the call left them
\* (js): the progress and stage are stored if the job is in _jobs, and the loop
\* over the callbacks is entered if the job id is in _progress_callbacks.
\* The task goes on at `then` after the call.
notify_progress(j, js, progress, stage, audio_url, then) ==
    /\ jobs' = IF j \in job_store
               THEN [js EXCEPT ![j].progress = progress, ![j].stage = stage]
               ELSE js
    /\ notified' = [notified EXCEPT ![j] = Append(@, <<progress, stage>>)]
    /\ gen' = [gen EXCEPT ![j] = NotifyFrame(@, j, progress, stage, audio_url,
                                             then)]
    /\ running' = j

\* An exception raised inside the try block of generate_audio: to line 245.
Raise(j, e) ==
    /\ gen' = [gen EXCEPT ![j].pc = "except", ![j].e = e]
    /\ running' = j

\* POST /generate: create_job, then generate_audio is added as a background task.
PostGenerate ==
    /\ LoopFree
    /\ \E model \in Variants :
         LET j == Cardinality({k \in JobIds : jobs[k].status # None}) + 1
         IN  /\ j \in JobIds
             /\ create_job(j, model)
             /\ gen' = [gen EXCEPT ![j].pc = "scheduled"]
    /\ UNCHANGED <<rm_vars, progress_callbacks, files, torchaudio_available, github, delete_reply, ws,
                   running, notified, sent>>

\* generate_audio(job_id), lines 98-118: the imports, the job lookup, the
\* status "processing" and the first notification.
GenStart(j) ==
    /\ LoopFree
    /\ gen[j].pc = "scheduled"
    /\ IF ~(torch_available /\ torchaudio_available)
       THEN /\ gen' = [gen EXCEPT ![j].pc = "raised",
                           ![j].e = Exception("RuntimeError", <<ERR_AUDIO_TORCH>>)]
            /\ UNCHANGED <<jobs, notified, running>>
       ELSE IF j \notin job_store
       THEN /\ gen' = [gen EXCEPT ![j].pc = "raised",
                           ![j].e = Exception("ValueError", <<ERR_JOB_NOT_FOUND>>)]
            /\ UNCHANGED <<jobs, notified, running>>
       ELSE notify_progress(j, [jobs EXCEPT ![j].status = "processing"],
                            5, "loading_model", NoPath, "load")
    /\ UNCHANGED <<rm_vars, task_frame, progress_callbacks, files, sent>>

\* The loop of _notify_progress, lines 84-86: the next callback of the list is
\* called, and on_progress hands the message to websocket.send_json and waits.
GenCallback(j) ==
    /\ Holds(j)
    /\ gen[j].pc = "cb_iter"
    /\ IF gen[j].i <= Len(progress_callbacks[j].list)
       THEN LET o == progress_callbacks[j].list[gen[j].i]
            IN  /\ gen' = [gen EXCEPT ![j].pc = "cb_await", ![j].cb = o,
                                      ![j].called = Append(@, o)]
                /\ sent' = [sent EXCEPT ![o] =
                               Append(@, Message(gen[j].progress, gen[j].stage,
                                                 gen[j].audio_url, None))]
                /\ running' = NoJob
       ELSE /\ gen' = [gen EXCEPT ![j].pc = gen[j].then]
            /\ UNCHANGED <<sent, running>>
    /\ UNCHANGED <<rm_vars, task_frame, jobs, progress_callbacks, files, notified>>

\* The send is over, but an error of it is caught nowhere: it reaches the try
\* block of generate_audio, or ends the task when the handler itself notified.
GenCallbackDone_Propagating(j) ==
    /\ LoopFree
    /\ gen[j].pc = "cb_await"
    /\ \/ gen' = [gen EXCEPT ![j].pc = "cb_iter", ![j].i = @ + 1, ![j].cb = 0]
       \/ gen' = [gen EXCEPT ![j].pc = IF gen[j].then = "reraise"
                                       THEN "reraise" ELSE "except",
                             ![j].cb = 0, ![j].failed = @ \cup {gen[j].cb},
                             ![j].e = IF gen[j].then = "reraise" THEN @
                                      ELSE Exception("RuntimeError", <<"send failed">>)]
    /\ running' = j
    /\ UNCHANGED <<rm_vars, task_frame, jobs, progress_callbacks, files,
                   notified, sent>>

\* The send is over, and the loop goes on two elements further.
GenCallbackDone_Skipping(j) ==
    /\ LoopFree
    /\ gen[j].pc = "cb_await"
    /\ \E ok \in BOOLEAN :
         gen' = [gen EXCEPT ![j].pc = "cb_iter", ![j].i = @ + 2, ![j].cb = 0,
                           ![j].failed = IF ok THEN @ ELSE @ \cup {gen[j].cb}]
    /\ running' = j
    /\ UNCHANGED <<rm_vars, task_frame, jobs, progress_callbacks, files,
                   notified, sent>>

\* The send is over or has failed (an error of it is caught in on_progress,
\* websocket.py 52, and one of the callback in line 87) and the loop goes to the
\* next index of the list.
GenCallbackDone(j) ==
    /\ LoopFree
    /\ gen[j].pc = "cb_await"
    /\ \E ok \in BOOLEAN :
         gen' = [gen EXCEPT ![j].pc = "cb_iter", ![j].i = @ + 1, ![j].cb = 0,
                           ![j].failed = IF ok THEN @ ELSE @ \cup {gen[j].cb}]
    /\ running' = j
    /\ UNCHANGED <<rm_vars, task_frame, jobs, progress_callbacks, files,
                   notified, sent>>

\* Line 121: the task calls load_model for the job's variant.
GenLoad(j) ==
    /\ Holds(j)
    /\ gen[j].pc = "load"
    /\ load_model_call(jobs[j].model, j)
    /\ gen' = [gen EXCEPT ![j].pc = "in_load",
                          ![j].resident0 = {v \in Variants \ {jobs[j].model} :
                                               is_loaded(v) /\ is_ready(v)}]
    /\ UNCHANGED <<task_frame, jobs, progress_callbacks, files, running,
                   notified, sent>>

\* The exception a load_model call has raised.
RaisedByLoad ==
    IF fg.msg = ERR_KEY THEN Exception("KeyError", <<fg.model_id>>)
    ELSE Exception("RuntimeError", <<fg.msg>>)

\* Lines 121-122: load_model is over; on a return the task notifies "preparing".
GenLoaded(j) ==
    /\ running = j
    /\ gen[j].pc = "in_load"
    /\ fg.job = j
    /\ fg.pc \in {"returned", "raised"}
    /\ fg' = IdleFrame
    /\ IF fg.pc = "returned"
       THEN notify_progress(j, jobs, 20, "preparing", NoPath, "params")
       ELSE Raise(j, RaisedByLoad) /\ UNCHANGED <<jobs, notified>>
    /\ UNCHANGED <<loading_states, models, model_configs, current_model,
                   loading_lock, torch_available, bg, calls>>
    /\ UNCHANGED <<task_frame, progress_callbacks, files, sent>>

\* The notification "generating" with a progress below that of "preparing".
GenParams_Regressing(j) ==
    /\ Holds(j)
    /\ gen[j].pc = "params"
    /\ notify_progress(j, jobs, 10, "generating", NoPath, "dispatch")
    /\ UNCHANGED <<rm_vars, task_frame, progress_callbacks, files, sent>>

\* Lines 125-169: the generation parameters, then the notification "generating".
GenParams(j) ==
    /\ Holds(j)
    /\ gen[j].pc = "params"
    /\ notify_progress(j, jobs, 30, "generating", NoPath, "dispatch")
    /\ UNCHANGED <<rm_vars, task_frame, progress_callbacks, files, sent>>

\* Lines 172-200: the import of generate_diffusion_cond, then do_generate is
\* handed to the executor and the task waits for it.
GenDispatch(j) ==
    /\ Holds(j)
    /\ gen[j].pc = "dispatch"
    /\ \/ Raise(j, Exception("ImportError", <<ERR_GEN_IMPORT>>))
       \/ /\ gen' = [gen EXCEPT ![j].pc = "executor"]
          /\ running' = NoJob
    /\ UNCHANGED <<rm_vars, task_frame, jobs, progress_callbacks, files,
                   notified, sent>>

\* Lines 200-202: do_generate has returned or raised in its thread and the task
\* goes on; on a return it notifies "processing_audio".
GenExecutorDone(j) ==
    /\ LoopFree
    /\ gen[j].pc = "executor"
    /\ \/ \E e \in LibraryErrors : Raise(j, e) /\ UNCHANGED <<jobs, notified>>
       \/ notify_progress(j, jobs, 80, "processing_audio", NoPath,
                          "postprocess")
    /\ UNCHANGED <<rm_vars, task_frame, progress_callbacks, files, sent>>

\* Lines 205-219: the tensor is brought to two channels, then "saving".
GenPostprocess(j) ==
    /\ Holds(j)
    /\ gen[j].pc = "postprocess"
    /\ \/ \E e \in LibraryErrors : Raise(j, e) /\ UNCHANGED <<jobs, notified>>
       \/ notify_progress(j, jobs, 90, "saving", NoPath, "save")
    /\ UNCHANGED <<rm_vars, task_frame, progress_callbacks, files, sent>>

\* Lines 222-241: the file is written, the job gets its audio_path and the
\* status "complete", and "complete" is notified.
GenSave(j) ==
    /\ Holds(j)
    /\ gen[j].pc = "save"
    /\ \/ /\ \E e \in LibraryErrors : Raise(j, e)
          /\ UNCHANGED <<jobs, notified, files>>
       \/ /\ files' = files \cup {j}
          /\ notify_progress(j, [jobs EXCEPT ![j].audio_path = j,
                                             ![j].status = "complete"],
                             100, "complete", j, "return")
    /\ UNCHANGED <<rm_vars, task_frame, progress_callbacks, sent>>

\* Line 243: generate_audio returns the path.
GenReturn(j) ==
    /\ Holds(j)
    /\ gen[j].pc = "return"
    /\ gen' = [gen EXCEPT ![j].pc = "done"]
    /\ running' = NoJob
    /\ UNCHANGED <<rm_vars, task_frame, jobs, progress_callbacks, files,
                   notified, sent>>

\* Lines 245-250, the handler of the try block: the status "error", the
\* message str(e) and the notification "error".
GenExcept(j) ==
    /\ Holds(j)
    /\ gen[j].pc = "except"
    /\ notify_progress(j, [jobs EXCEPT ![j].status = "error",
                                       ![j].error = str(gen[j].e)],
                       0, "error", NoPath, "reraise")
    /\ UNCHANGED <<rm_vars, task_frame, progress_callbacks, files, sent>>

\* Line 251: the exception is raised again and ends the task.
GenReraise(j) ==
    /\ Holds(j)
    /\ gen[j].pc = "reraise"
    /\ gen' = [gen EXCEPT ![j].pc = "raised"]
    /\ running' = NoJob
    /\ UNCHANGED <<rm_vars, task_frame, jobs, progress_callbacks, files,
                   notified, sent>>

GenStep(j) ==
    \/ GenStart(j) \/ GenCallback(j) \/ GenCallbackDone(j) \/ GenLoad(j)
    \/ GenLoaded(j) \/ GenParams(j) \/ GenDispatch(j) \/ GenExecutorDone(j)
    \/ GenPostprocess(j) \/ GenSave(j) \/ GenReturn(j) \/ GenExcept(j)
    \/ GenReraise(j)

\* Task j is inside a _notify_progress call (suspended in a callback: no other
\* coroutine runs while it is between two callbacks).
InNotify(j) == gen[j].pc \in {"cb_iter", "cb_await"}

\* get_job(job_id): the stored job object, or none.
get_job(j) == IF j \in job_store THEN jobs[j] ELSE NoJobObject

\* DELETE /audio/{job_id} of a stored job: cleanup_job removes the file, the
\* job and the job's callbacks.
delete_audio(j) ==
    /\ LoopFree
    /\ j \in job_store
    /\ files' = files \ {jobs[j].audio_path}
    /\ job_store' = job_store \ {j}
    /\ progress_callbacks' = [progress_callbacks EXCEPT ![j].present = FALSE]
    /\ gen' = [gen EXCEPT ![j].deleted = @ \/ InNotify(j)]
    /\ delete_reply' = [delete_reply EXCEPT ![j] = "deleted"]
    /\ UNCHANGED <<rm_vars, jobs, torchaudio_available, github, ws, running,
                   notified, sent>>

\* DELETE /audio/{job_id} of a job id that is not stored, answered like the
\* deletion of a stored one.
delete_audio_not_found_Deleted(j) ==
    /\ LoopFree
    /\ get_job(j) = NoJobObject
    /\ delete_reply' = [delete_reply EXCEPT ![j] = "deleted"]
    /\ UNCHANGED <<rm_vars, jobs, job_store, progress_callbacks, files,
                   torchaudio_available, github, gen, ws, running, notified, sent>>

\* DELETE /audio/{job_id} of a job id get_job does not find, routes.py 183-186:
\* the answer is 404 "Job not found" and cleanup_job is not called.
delete_audio_not_found(j) ==
    /\ LoopFree
    /\ get_job(j) = NoJobObject
    /\ delete_reply' = [delete_reply EXCEPT ![j] = ERR_JOB_NOT_FOUND]
    /\ UNCHANGED <<rm_vars, jobs, job_store, progress_callbacks, files,
                   torchaudio_available, github, gen, ws, running, notified, sent>>

\* A client connects to /ws/{job_id}: websocket.accept().
WsConnect(o, job_id) ==
    /\ LoopFree
    /\ ws[o].pc = "none"
    /\ \A p \in ObsIds : p < o => ws[p].pc # "none"
    /\ ws' = [ws EXCEPT ![o] = [pc |-> "accepted", job_id |-> job_id,
                                status0 |-> None]]
    /\ UNCHANGED <<rm_vars, jobs, job_store, progress_callbacks, files,
                   torchaudio_available, github, delete_reply, gen, running, notified, sent>>

\* websocket_progress, lines 23-60: an unknown or failed job is answered and the
\* connection closed; else on_progress is registered and the current progress
\* and stage are sent.
WsAttach(o) ==
    /\ LoopFree
    /\ ws[o].pc = "accepted"
    /\ LET j == ws[o].job_id
       IN  IF j \notin job_store
           THEN /\ sent' = [sent EXCEPT ![o] =
                       Append(@, Message(0, "error", NoPath, "Job not found"))]
                /\ ws' = [ws EXCEPT ![o].pc = "closed"]
                /\ UNCHANGED <<progress_callbacks, gen>>
           ELSE IF jobs[j].status = "completed"
           THEN /\ sent' = [sent EXCEPT ![o] =
                       Append(@, Message(100, "completed", j, None))]
                /\ ws' = [ws EXCEPT ![o].pc = "closed",
                                    ![o].status0 = jobs[j].status]
                /\ UNCHANGED <<progress_callbacks, gen>>
           ELSE IF jobs[j].status = "error"
           THEN /\ sent' = [sent EXCEPT ![o] =
                       Append(@, Message(0, "error", NoPath, jobs[j].error))]
                /\ ws' = [ws EXCEPT ![o].pc = "closed",
                                    ![o].status0 = jobs[j].status]
                /\ UNCHANGED <<progress_callbacks, gen>>
           ELSE /\ register_progress_callback(j, o)
                /\ gen' = [gen EXCEPT ![j].added =
                                          IF InNotify(j) THEN @ \cup {o} ELSE @]
                /\ sent' = [sent EXCEPT ![o] =
                       Append(@, Message(jobs[j].progress, jobs[j].stage,
                                         NoPath, None))]
                /\ ws' = [ws EXCEPT ![o].pc = "open",
                                    ![o].status0 = jobs[j].status]
    /\ UNCHANGED <<rm_vars, jobs, job_store, files, torchaudio_available, github, delete_reply,
                   running, notified>>

\* The client disconnects or a send fails: the handler's finally block
\* unregisters on_progress.
WsDisconnect(o) ==
    /\ LoopFree
    /\ ws[o].pc = "open"
    /\ unregister_progress_callback(ws[o].job_id, o)
    /\ gen' = [gen EXCEPT ![ws[o].job_id].removed =
                              IF InNotify(ws[o].job_id) THEN @ \cup {o} ELSE @]
    /\ ws' = [ws EXCEPT ![o].pc = "closed"]
    /\ UNCHANGED <<rm_vars, jobs, job_store, files, torchaudio_available, github, delete_reply,
                   running, notified, sent>>

\* --------------------------------------------------------- specifications
NextFg == AcquireCall \/ AcquireDone \/ FgStep

\* Foreground loads alone.
SpecFg == Init /\ [][NextFg]_vars

Next ==
    \/ AcquireCall
    \/ AcquireDone
    \/ FgStep
    \/ BgCall
    \/ \E b \in BgIds : BgLocked(b) \/ BgFinish(b) \/ ThreadStep(b)

\* The resource manager under foreground and background loads.
Spec == Init /\ [][Next]_vars

\* load_model with a model id that is no key of MODEL_REPOS.
AcquireUnknown ==
    /\ LoopFree
    /\ load_model_call(UnknownId, NoJob)
    /\ UNCHANGED job_vars

\* load_model_background with a model id that is no key of MODEL_REPOS.
BgCallUnknown ==
    /\ \E b \in BgIds : load_model_background(b, UnknownId)
    /\ UNCHANGED job_vars

NextIds == Next \/ AcquireUnknown \/ BgCallUnknown

\* The resource manager called with known and unknown model ids.
SpecIds == Init /\ [][NextIds]_vars

\* No load is under way: no load_model call and no load_model_background call.
Quiet == fg.pc = "idle" /\ \A b \in BgIds : bg[b].pc \in {"none", "done"}

\* A load_model call made when no load is under way.
SeqAcquireCall == Quiet /\ AcquireCall

\* A load_model_background call made when no load is under way.
SeqBgCall == Quiet /\ BgCall

NextSeq ==
    \/ SeqAcquireCall
    \/ AcquireDone
    \/ FgStep
    \/ SeqBgCall
    \/ \E b \in BgIds :
          \/ BgFinish(b)
          \/ ThreadStart(b) \/ ThreadInit(b)
          \/ ThreadUnloadKeys(b) \/ ThreadUnloadCheck(b) \/ ThreadUnloadDelModel(b)
          \/ ThreadUnloadDelConfig(b) \/ ThreadUnloadCurrent(b) \/ ThreadUnloadIdle(b)
          \/ ThreadDownloadState(b) \/ ThreadWeightsState(b) \/ ThreadLoad(b)
          \/ ThreadDeviceState(b) \/ ThreadStoreModel(b) \/ ThreadStoreConfig(b)
          \/ ThreadStoreCurrent(b) \/ ThreadReady(b)

\* The resource manager under loads made one after the other.
SpecSeq == Init /\ [][NextSeq]_vars

NextRoute ==
    \/ AcquireCall
    \/ AcquireDone
    \/ FgStep
    \/ \E b \in BgIds, model_id \in Variants : PostLoad(b, model_id)
    \/ \E b \in BgIds :
          BgTaskStart(b) \/ BgLocked(b) \/ BgFinish(b) \/ ThreadStep(b)

\* The resource manager under foreground loads and POST /models/{model_id}/load
\* requests.
SpecRoute == Init /\ [][NextRoute]_vars

NextJobs ==
    \/ PostGenerate
    \/ \E j \in JobIds : GenStep(j) \/ delete_audio(j)
    \/ FgStep
    \/ \E o \in ObsIds : WsAttach(o) \/ WsDisconnect(o)
    \/ \E o \in 1..MaxObservers, job_id \in JobIds : WsConnect(o, job_id)

\* The audio service: jobs, their generate_audio tasks and their observers.
SpecJobs == Init /\ [][NextJobs]_vars

\* A load_model call that is over before the job is submitted.
HubPreload ==
    /\ \A k \in JobIds : jobs[k].status = None
    /\ calls = 0
    /\ AcquireCall

\* POST /generate, once.
HubSubmit ==
    /\ \A k \in JobIds : jobs[k].status = None
    /\ PostGenerate

NextHub ==
    \/ HubPreload
    \/ AcquireDone
    \/ HubSubmit
    \/ \E j \in JobIds : GenStep(j) \/ delete_audio(j)
    \/ FgStep
    \/ \E o \in ObsIds : WsAttach(o) \/ WsDisconnect(o)
    \/ \E o \in 1..MaxHubObservers, job_id \in JobIds : WsConnect(o, job_id)

\* The audio service with one job and several observers of it.
SpecHub == Init /\ [][NextHub]_vars

NextStore ==
    \/ HubPreload
    \/ AcquireDone
    \/ HubSubmit
    \/ \E j \in JobIds :
          GenStep(j) \/ delete_audio(j) \/ delete_audio_not_found(j)
    \/ FgStep
    \/ \E o \in ObsIds : WsAttach(o) \/ WsDisconnect(o)
    \/ \E o \in 1..MaxObservers, job_id \in JobIds : WsConnect(o, job_id)

\* The audio service with one job, under deletions of stored and of unknown
\* job ids.
SpecStore == Init /\ [][NextStore]_vars

\* SpecStore with an event loop that runs every task that can go on, and with
\* external calls that return or raise: a task that can take a step takes it.
LiveStore ==
    /\ SpecStore
    /\ \A j \in JobIds : WF_vars(GenStep(j))
    /\ WF_vars(FgStep)

\* ------------------------------------------------------------------ claims
\* The variants whose slot is loading or ready.
Residents == {v \in Variants : loading_states[v].status \in {"loading", "ready"}}

\* The load_model_background calls whose worker thread is in _load_model_sync.
Running == {b \in BgIds : bg[b].pc \in ThreadPcs}

C2_SingleResidency == Cardinality(Residents) <= 1

\* C3: at most one slot is ready and at most one handle is stored in _models.
C3_OneReadyResident ==
    /\ Cardinality({v \in Variants : is_ready(v)}) <= 1
    /\ Cardinality(loaded_models) <= 1

\* The positions of load_model inside its evict-and-load sequence.
FgSeqPcs == {"unload_keys", "u_check", "u_del_model", "u_del_config", "u_current",
             "u_idle", "init", "weights_state", "load", "device_state",
             "store_model", "store_config", "store_current", "ready"}

\* The positions of _load_model_sync inside its evict-and-load sequence.
ThreadSeqPcs == ThreadPcs \ {"t_start", "t_hit_state"}

\* C4: no two evict-and-load sequences are in progress at once.
C4_OneSequenceAtATime ==
    Cardinality({b \in BgIds : bg[b].pc \in ThreadSeqPcs})
        + (IF fg.pc \in FgSeqPcs THEN 1 ELSE 0) <= 1

\* C5: a job's status changes only along queued -> processing -> {complete,
\* error}: a job is created queued with progress 0.0 and stage "queued", never
\* goes from queued to complete or error, and never leaves complete or error,
\* whatever submissions, tasks, notifications, subscriptions and deletions occur.
C5_StatusLifecycle ==
    [][\A j \in JobIds :
         /\ jobs'[j].status # jobs[j].status =>
                <<jobs[j].status, jobs'[j].status>> \in
                    {<<None, "queued">>, <<"queued", "processing">>,
                     <<"processing", "complete">>, <<"processing", "error">>}
         /\ (jobs[j].status = None /\ jobs'[j].status # None) =>
                jobs'[j].progress = 0 /\ jobs'[j].stage = "queued"]_vars

\* One job is complete and another has failed, both tasks are over, and the
\* complete one had an observer and was deleted afterwards.
C5_Witness ==
    \E j, k \in JobIds :
        /\ jobs[j].status = "complete" /\ gen[j].pc = "done"
        /\ jobs[k].status = "error" /\ gen[k].pc = "raised"
        /\ j \notin job_store
        /\ \E o \in ObsIds : ws[o].job_id = j /\ Message(100, "complete", j, None) \in
                                  {sent[o][n] : n \in 1..Len(sent[o])}

\* C6: the stored progress of a job never decreases while the job's status is
\* not error, and the progress of a stored job is 1.0 exactly when its status
\* is complete.
C6_ProgressMonotone ==
    /\ [](\A j \in job_store :
             jobs[j].progress = 100 <=> jobs[j].status = "complete")
    /\ [][\A j \in JobIds :
             jobs'[j].status # "error" => jobs'[j].progress >= jobs[j].progress]_vars

\* A stored job has gone through every notification up to 1.0 and is complete.
C6_Witness ==
    \E j \in job_store :
        /\ jobs[j].status = "complete" /\ jobs[j].progress = 100
        /\ notified[j] = <<(<<5, "loading_model">>), (<<20, "preparing">>),
                           (<<30, "generating">>), (<<80, "processing_audio">>),
                           (<<90, "saving">>), (<<100, "complete">>)>>

\* C7: when a step of a job's generate_audio fails (the import of the
\* libraries, load_model, the computation, the post-processing, the save), the
\* job's status is error, an error message is recorded and a notification with
\* progress 0.0 and stage "error" has been issued.
C7_FailureRecorded ==
    \A j \in job_store :
        gen[j].pc = "raised" =>
            /\ jobs[j].status = "error"
            /\ jobs[j].error # None
            /\ <<0, "error">> \in {notified[j][n] : n \in 1..Len(notified[j])}

\* C8: a complete job has an audio_path and no error message; an error job
\* has a non-empty error message, progress 0.0 and no audio_path.
C8_TerminalExactlyOne ==
    \A j \in job_store :
        /\ jobs[j].status = "complete" =>
               jobs[j].audio_path # NoPath /\ jobs[j].error = None
        /\ jobs[j].status = "error" =>
               /\ jobs[j].error \notin {None, ""}
               /\ jobs[j].progress = 0
               /\ jobs[j].audio_path = NoPath

\* C9: a load_model call made when the slot of its variant is ready returns
\* the handle stored at the call, evicts nothing, loads nothing, and leaves the
\* slot ready.
C9_ReadyIsCacheHit ==
    (fg.pc \in {"returned", "raised"} /\ fg.ready0) =>
        /\ fg.pc = "returned"
        /\ fg.h = fg.h0 /\ fg.h # NoHandle
        /\ ~fg.evicted /\ ~fg.loaded
        /\ fg.status_after = "ready"

\* C10: a load_model call that took the cached-handle path does not return a
\* handle that is no longer stored in _models, and does not raise because the
\* handle is gone when line 288 reads it.
C10_SafeCachedLookup ==
    fg.hit => /\ fg.pc = "returned" => ~fg.stale
              /\ ~(fg.pc = "raised" /\ fg.h = NoHandle)

\* C11: when the eviction or the load of a load_model(V) call fails, V's slot
\* is error when the failure reaches the caller; and an error slot changes only
\* by a new load attempt of its variant, which sets it to loading (it is
\* neither reset by the eviction of another load nor set ready without a load).
C11_FailureLeavesError ==
    /\ []((fg.pc = "raised" /\ ~fg.hit /\ fg.msg # ERR_TORCH) =>
              fg.status_after = "error")
    /\ [][\A v \in Variants :
             loading_states[v].status = "error" =>
                 loading_states'[v].status \in {"error", "loading"}]_vars

\* The elements of a sequence.
Range(seq) == {seq[n] : n \in 1..Len(seq)}

\* Task j has made a _notify_progress call and has left it.
NotifyOver(j) == notified[j] # <<>> /\ ~InNotify(j)

\* No callback was registered or unregistered for job j during the last
\* _notify_progress call of task j.
Undisturbed(j) == gen[j].added = {} /\ gen[j].removed = {}

C13_FailingCallbackCaught ==
    /\ [](\A j \in JobIds :
             (NotifyOver(j) /\ Undisturbed(j) /\ gen[j].failed # {}) =>
                 gen[j].called = gen[j].reg0)
    /\ [][\A j \in JobIds :
             (gen[j].pc = "cb_await" /\ gen'[j].pc # "cb_await") =>
                 /\ gen'[j].pc = "cb_iter"
                 /\ gen'[j].i = gen[j].i + 1
                 /\ gen'[j].e = gen[j].e
                 /\ jobs'[j].status = jobs[j].status
                 /\ jobs'[j].error = jobs[j].error]_vars

\* The first of two callbacks failed, the second was invoked all the same, and
\* the job went on to completion.
C13_Witness ==
    \E j \in JobIds :
        /\ NotifyOver(j) /\ Undisturbed(j)
        /\ Len(gen[j].reg0) = 2
        /\ gen[j].reg0[1] \in gen[j].failed
        /\ gen[j].called = gen[j].reg0
        /\ jobs[j].status = "complete"

\* The number of times callback o was invoked by the last _notify_progress
\* call of task j.
TimesCalled(j, o) ==
    Cardinality({n \in 1..Len(gen[j].called) : gen[j].called[n] = o})

\* C14: a _notify_progress call that is over has invoked exactly once every
\* callback that was registered at the call and not unregistered during it,
\* whatever was registered or unregistered while the call was suspended in a
\* callback.
C14_ConsistentSnapshot ==
    \A j \in JobIds :
        NotifyOver(j) =>
            \A o \in Range(gen[j].reg0) \ gen[j].removed :
                TimesCalled(j, o) = 1

\* C15: an unregister_progress_callback during a _notify_progress call of the
\* same job leaves the call where it is, with nothing raised in it; and once a
\* handler has unregistered its callback (it is closed), no notification is
\* handed to that callback any more.
C15_UnregisterStopsDelivery ==
    [][\A o \in ObsIds :
          /\ (ws[o].pc = "open" /\ ws'[o].pc = "closed") =>
                 /\ gen'[ws[o].job_id].pc = gen[ws[o].job_id].pc
                 /\ gen'[ws[o].job_id].e = gen[ws[o].job_id].e
          /\ (ws[o].pc = "closed" /\ ws[o].status0 \notin {None, "error"}) =>
                 sent'[o] = sent[o]]_vars

\* Job j was created and cleanup_job has removed it.
Deleted(j) == jobs[j].status # None /\ j \notin job_store

\* C16: once cleanup_job has removed a job, get_job finds it no more, and no
\* callback registered for it is invoked any more, neither by the
\* _notify_progress call that was suspended when the job was removed nor by a
\* later call of the job's generate_audio task.
C16_NothingAfterDelete ==
    [][\A j \in JobIds :
          Deleted(j) =>
              /\ Deleted(j)'
              /\ get_job(j)' = NoJobObject
              /\ Len(gen'[j].called) <= Len(gen[j].called)]_vars

\* The final snapshot of job j: for a complete job the progress 1.0 with the
\* audio_url, for a failed one the error message.
IsFinalSnapshot(m, j, status) ==
    IF status = "complete"
    THEN m.progress = 100 /\ m.audio_url = j
    ELSE m.stage = "error" /\ m.error = jobs[j].error

\* C17: a websocket_progress handler that found its job complete or failed
\* has sent the final snapshot of the job and has ended without registering a
\* callback; one that found its job in another status has sent at least the
\* progress and stage of the job.
C17_AttachToTerminal ==
    \A o \in ObsIds :
        (ws[o].pc \in {"open", "closed"} /\ ws[o].status0 # None) =>
            /\ sent[o] # <<>>
            /\ ws[o].status0 \in {"complete", "error"} =>
                  /\ ws[o].pc = "closed"
                  /\ IsFinalSnapshot(sent[o][1], ws[o].job_id, ws[o].status0)

C19_SecondRequestRefused ==
    \A c \in BgIds :
        (bg[c].during # 0 /\ bg[bg[c].during].fresh) =>
            /\ bg[c].reply \in {"already_loading", "already_ready"}
            /\ bg[c].nloads = 0

\* The model ids that are no key of MODEL_REPOS.
UnknownIds == ModelIds \ Variants

\* C20: for a model id that is no key of MODEL_REPOS, get_loading_status
\* returns no snapshot of a slot, load_model raises the unknown-id error and
\* returns nothing, a background load that is over has recorded or raised the
\* error, and the steps of a call for such an id change no slot and no stored
\* model.
C20_UnknownVariantFails ==
    /\ [](\A id \in UnknownIds :
             get_loading_status(id).status \notin {"idle", "loading", "ready", "error"})
    /\ []((fg.pc \in {"returned", "raised"} /\ fg.model_id \in UnknownIds) =>
             /\ fg.pc = "raised"
             /\ torch_available => fg.msg = ERR_UNKNOWN)
    /\ [](\A b \in BgIds :
             (bg[b].pc \in {"t_done", "done"} /\ bg[b].model_id \in UnknownIds) =>
                 \/ get_loading_status(bg[b].model_id).status = "error"
                 \/ bg[b].msg = ERR_UNKNOWN)
    /\ [][(\/ /\ fg' # fg
               /\ (fg.model_id \in UnknownIds \/ fg'.model_id \in UnknownIds)
            \/ \E b \in BgIds : /\ bg'[b] # bg[b]
                                /\ bg'[b].model_id \in UnknownIds) =>
             UNCHANGED <<loading_states, models, model_configs, current_model>>]_vars

\* The values the status field of AudioStatusResponse accepts (models.py 77).
StatusLiteral == {"queued", "processing", "completed", "error"}

\* GET /audio/{job_id}/status, routes.py 126-143: 404 for a job id get_job does
\* not find; else the AudioStatusResponse of the job, whose construction fails
\* (the request ends with the status code 500) when the job's status is none
\* of StatusLiteral.
get_audio_status(j) ==
    LET job == get_job(j)
        none == [code |-> 404, status |-> None, progress |-> 0, stage |-> None,
                 audio_url |-> NoPath, error |-> None]
    IN  IF job = NoJobObject THEN none
        ELSE IF job.status \notin StatusLiteral THEN [none EXCEPT !.code = 500]
        ELSE [code |-> 200, status |-> job.status, progress |-> job.progress,
              stage |-> job.stage,
              audio_url |-> IF job.status = "completed" THEN j ELSE NoPath,
              error |-> job.error]

\* C21: GET /audio/{job_id}/status answers, for a stored job, with the job's
\* status, progress, stage and error, and with the audio_url once the job is
\* complete; for a job id that is not stored it answers not found (404).
C21_StatusSnapshot ==
    \A j \in JobIds :
        LET r == get_audio_status(j)
        IN  IF j \in job_store
            THEN /\ r.code = 200
                 /\ r.status = jobs[j].status
                 /\ r.progress = jobs[j].progress
                 /\ r.stage = jobs[j].stage
                 /\ r.error = jobs[j].error
                 /\ jobs[j].status = "complete" => r.audio_url = j
            ELSE r.code = 404

\* C22: a DELETE /audio/{job_id} for a job id that is not stored (never created
\* or deleted before) is answered "Job not found" and changes neither the
\* stored jobs, nor a job's record, nor a registration, nor a file.
C22_DeleteUnknown ==
    [][\A j \in JobIds :
          (get_job(j) = NoJobObject /\ delete_reply'[j] # delete_reply[j]) =>
              /\ delete_reply'[j] = ERR_JOB_NOT_FOUND
              /\ UNCHANGED <<job_store, jobs, progress_callbacks, files>>]_vars

\* The deletion of an unknown job id was answered while another job was
\* stored, observed and complete.
C22_Witness ==
    \E j, k \in JobIds :
        /\ delete_reply[j] = ERR_JOB_NOT_FOUND
        /\ k \in job_store
        /\ jobs[k].status = "complete" /\ jobs[k].audio_path \in files
        /\ progress_callbacks[k].present /\ progress_callbacks[k].list # <<>>

\* The handler of observer o has registered its callback at some time.
HasRegistered(o) == ws[o].pc \in {"open", "closed"} /\ ws[o].status0 \notin {None, "error"}

\* C23: the unregister_progress_callback call of a websocket handler that ends
\* takes the handler's callback, and no other, out of the list of its job, keeps
\* the order of the others and leaves the lists of the other jobs as they are;
\* when the job has no list any more (it was deleted) the call changes nothing;
\* in either case the handler ends and nothing is raised in a task.
C23_UnregisterExact ==
    [][\A o \in ObsIds :
          (ws[o].pc = "open" /\ ws'[o].pc = "closed") =>
              LET j == ws[o].job_id
                  before == progress_callbacks[j]
                  after == progress_callbacks'[j]
              IN  /\ after.present = before.present
                  /\ IF before.present
                     THEN /\ o \notin Range(after.list)
                          /\ after.list = SelectSeq(before.list, LAMBDA c : c # o)
                          /\ Len(after.list) =
                                Len(before.list) - (IF o \in Range(before.list) THEN 1 ELSE 0)
                     ELSE after = before
                  /\ \A k \in JobIds \ {j} :
                         progress_callbacks'[k] = progress_callbacks[k]
                  /\ \A k \in JobIds : gen'[k].pc = gen[k].pc /\ gen'[k].e = gen[k].e]_vars

\* Of two observers of a job the first has unregistered and left the second
\* registered; then the job was deleted and the second has unregistered, which
\* found no list.
C23_Witness ==
    \E j \in JobIds : \E o, c \in ObsIds :
        /\ o # c
        /\ Deleted(j)
        /\ ws[o].job_id = j /\ ws[c].job_id = j
        /\ HasRegistered(o) /\ ws[o].pc = "closed"
        /\ HasRegistered(c) /\ ws[c].pc = "closed"
        /\ progress_callbacks[j] = [present |-> FALSE, list |-> <<c>>]

\* The status of a slot or of a job goes from a to b in this step.
Goes(before, after, a, b) == before = a /\ after = b

\* C24: a job for variant A whose task called load_model while the other
\* variant B was stored and ready, and whose task has returned (every external
\* call succeeded), is complete with its audio_path set and its file written;
\* slot B is idle and B is not stored, slot A is ready and A is stored. On the
\* way the status of slot A went idle -> loading -> ready, that of slot B
\* ready -> idle, and that of the job queued -> processing -> complete.
C24_ScenarioSwitch ==
    /\ [](\A j \in JobIds :
             (gen[j].pc = "done" /\ gen[j].resident0 # {}) =>
                 /\ jobs[j].status = "complete"
                 /\ jobs[j].audio_path # NoPath
                 /\ j \in job_store => jobs[j].audio_path \in files
                 /\ loading_states[jobs[j].model].status = "ready"
                 /\ is_loaded(jobs[j].model)
                 /\ \A v \in gen[j].resident0 :
                        loading_states[v].status = "idle" /\ ~is_loaded(v))
    /\ [][\A j \in JobIds :
             (gen'[j].resident0 # {} /\ gen'[j].pc \notin {"raised", "except", "reraise"}) =>
                 LET A == jobs[j].model
                 IN  /\ \/ loading_states'[A].status = loading_states[A].status
                        \/ Goes(loading_states[A].status, loading_states'[A].status,
                                "idle", "loading")
                        \/ Goes(loading_states[A].status, loading_states'[A].status,
                                "loading", "ready")
                        \/ Goes(loading_states[A].status, loading_states'[A].status,
                                "loading", "error")
                     /\ \A v \in gen'[j].resident0 :
                          \/ loading_states'[v].status = loading_states[v].status
                          \/ Goes(loading_states[v].status, loading_states'[v].status,
                                  "ready", "idle")
                     /\ \/ jobs'[j].status = jobs[j].status
                        \/ Goes(jobs[j].status, jobs'[j].status, "queued", "processing")
                        \/ Goes(jobs[j].status, jobs'[j].status, "processing", "complete")
                        \/ Goes(jobs[j].status, jobs'[j].status, "processing", "error")]_vars

\* Such a job has returned.
C24_Witness ==
    \E j \in JobIds :
        /\ gen[j].pc = "done"
        /\ gen[j].resident0 # {}
        /\ jobs[j].status = "complete"
        /\ j \in job_store

\* C25: a job whose generate_audio task was added as a background task is
\* in the end complete or failed, or deleted.
C25_JobsTerminate ==
    \A j \in JobIds :
        (gen[j].pc = "scheduled") ~>
            (j \notin job_store \/ jobs[j].status \in {"complete", "error"})

\* What load_model(model_id) leaves behind when it is called in the state pre
\* and no other load runs: nothing changes when torch is missing (lines
\* 274-277); a stored model is marked ready (285-288); else every stored model
\* is unloaded and its slot set to idle (291), and the variant's slot is ready
\* with the model stored when get_pretrained_model returned (ok), error when it raised.
load_model_result(pre, model_id, ok) ==
    IF ~torch_available THEN pre
    ELSE IF pre[model_id].stored
    THEN [pre EXCEPT ![model_id].status = "ready"]
    ELSE [v \in Variants |->
             IF v = model_id
             THEN [status |-> IF ok THEN "ready" ELSE "error", stored |-> ok]
             ELSE IF pre[v].stored THEN [status |-> "idle", stored |-> FALSE]
             ELSE pre[v]]

\* C26: a load made alone, by load_model or by load_model_background, leaves
\* every slot and the set of stored models as load_model leaves them from the
\* same state with the same outcome of the external calls (the background
\* load's external calls raised when it recorded an error message).
C26_SameLoadingBehaviour ==
    /\ fg.pc \in {"returned", "raised"} =>
           Snapshot = load_model_result(fg.pre, fg.model_id, fg.pc = "returned")
    /\ \A b \in BgIds :
           bg[b].pc = "t_done" =>
               Snapshot = load_model_result(bg[b].pre, bg[b].model_id,
                                            loading_states[bg[b].model_id].error = None)

\* The variants other than model_id whose model is still stored.
StillStored(model_id) == {w \in Variants \ {model_id} : is_loaded(w)}

\* C27: in a load of a variant, by load_model or by _load_model_sync, the
\* variant's slot is not loading and get_pretrained_model is not about to be
\* called while another variant's model is still stored.
C27_EvictionBeforeLoad ==
    /\ fg.pc \notin {"idle", "returned", "raised"} =>
           /\ is_loading(fg.model_id) => StillStored(fg.model_id) = {}
           /\ fg.pc = "load" => StillStored(fg.model_id) = {}
    /\ \A b \in BgIds :
           bg[b].pc \in ThreadPcs \ {"t_done"} =>
               /\ is_loading(bg[b].model_id) => StillStored(bg[b].model_id) = {}
               /\ bg[b].pc = "t_load" => StillStored(bg[b].model_id) = {}

\* A step of the generate_audio task of job j that is not the return of an
\* observer callback's send.
GenRun(j) == GenStep(j) /\ gen[j].pc # "cb_await"

\* SpecStore where every task step that can be taken is taken in the end,
\* except that a callback's send may never finish (a stalled observer).
LiveStalled ==
    SpecStore /\ WF_vars(FgStep) /\ \A j \in JobIds : WF_vars(GenRun(j))

\* C28: _notify_progress does not make the task wait for a callback: with
\* torch and torchaudio importable, a dispatched job is in the end complete,
\* failed or deleted even when a callback's send never finishes.
C28_StalledObserverNoDelay ==
    \A j \in JobIds :
        (gen[j].pc = "scheduled" /\ torch_available /\ torchaudio_available) ~>
            (j \notin job_store \/ jobs[j].status \in {"complete", "error"})

\* A load_model call made by a generate_audio task is under way.
LoadOfJob == fg.job # NoJob /\ fg.pc \notin {"idle", "returned", "raised"}

\* C29: while the load_model call of a job is under way, a WebSocket handler
\* that has accepted its connection can take its next step (look the job up
\* and register its callback).
C29_LoopFreeDuringLoad ==
    \A o \in ObsIds :
        (LoadOfJob /\ ws[o].pc = "accepted") => ENABLED WsAttach(o)

\* C30: a load_model_background call made while a background load of the same
\* variant was in flight has returned in the step of the call: it is never
\* found waiting for the lock or loading.
C30_DuplicateReturnsAtOnce ==
    \A b \in BgIds : bg[b].overlap # 0 => bg[b].pc = "done"

\* C31: a slot that stays loading changes only to a marker of higher progress;
\* a slot enters loading at the start marker, takes the weights marker and the
\* device marker in this order, and becomes ready only with progress 100 and
\* only from the device marker, except in the cache-hit step of a load.
C31_ProgressMarkers ==
    [][\A v \in Variants :
          LET s == loading_states[v]
              t == loading_states'[v]
          IN  t # s =>
                /\ (s.status = "loading" /\ t.status = "loading") =>
                       t.progress > s.progress
                /\ (s.status # "loading" /\ t.status = "loading") =>
                       t.stage = "initializing"
                /\ (t.status = "loading" /\ t.stage = "moving_to_device") =>
                       (s.status = "loading" /\ s.stage = "loading_weights")
                /\ t.status = "ready" => t.progress = 100
                /\ ( /\ t.status = "ready"
                      /\ ~(fg.pc = "hit_state" /\ fg.model_id = v)
                      /\ \A b \in BgIds :
                             ~(bg[b].pc = "t_hit_state" /\ bg[b].model_id = v) ) =>
                       (s.status = "loading" /\ s.stage = "moving_to_device")]_vars

\* C32: when no load is under way, a slot is ready exactly when the variant's
\* model and its configuration are stored, both maps have the same keys, and a
\* single stored model is the current one.
C32_SlotAgreesWithHandle ==
    Quiet =>
        \A v \in Variants :
            /\ is_ready(v) <=> (models[v] # NoHandle /\ model_configs[v] # NoHandle)
            /\ (models[v] # NoHandle) <=> (model_configs[v] # NoHandle)
            /\ loaded_models = {v} => current_model = v

\* The task of job j has the model load_model returned and do_generate has
\* not ended yet (lines 121-200).
UsesModel(j) ==
    \/ gen[j].pc \in {"params", "dispatch", "executor"}
    \/ InNotify(j) /\ gen[j].then \in {"params", "dispatch"}

\* C33: while a task uses the model load_model returned to it, the variant's
\* model stays stored and its slot is not idle.
C33_HandleStaysResident ==
    \A j \in JobIds :
        UsesModel(j) =>
            (is_loaded(jobs[j].model) /\ loading_states[jobs[j].model].status # "idle")

\* C34: every audio file in the directory is that of a job in the job store.
C34_NoOrphanResult == files \subseteq job_store

\* C35: an observer whose callback is registered is in the end sent a message
\* with stage complete and the audio URL or with stage error, unless its
\* handler has ended.
C35_ObserverGetsTerminal ==
    \A o \in ObsIds :
        (ws[o].pc = "open") ~>
            \/ ws[o].pc = "closed"
            \/ \E i \in 1..Len(sent[o]) :
                   \/ sent[o][i].stage = "complete" /\ sent[o][i].audio_url # NoPath
                   \/ sent[o][i].stage = "error"

NextPair ==
    \/ calls < MaxCalls - 1 /\ AcquireCall
    \/ AcquireDone
    \/ FgStep
    \/ calls < MaxCalls - 1 /\ BgCall
    \/ \E b \in BgIds : BgLocked(b) \/ BgFinish(b) \/ ThreadStep(b)

\* The resource manager under foreground and background loads, with one call
\* less than in Spec.
SpecPair == Init /\ [][NextPair]_vars

\* SpecPair where every step of a load that can be taken is taken in the end:
\* the steps of load_model, of the worker threads and of the waiting coroutines.
LiveLoads ==
    /\ SpecPair
    /\ WF_vars(FgStep)
    /\ WF_vars(AcquireDone)
    /\ \A b \in BgIds :
           WF_vars(ThreadStep(b)) /\ WF_vars(BgFinish(b)) /\ WF_vars(BgLocked(b))

\* C36: a slot that is loading is in the end ready or error, and a call that
\* holds the loading lock gives it up in the end.
C36_LoadsSettle ==
    /\ \A v \in Variants :
           (loading_states[v].status = "loading") ~>
               (loading_states[v].status \in {"ready", "error"})
    /\ \A b \in BgIds : (loading_lock.holder = b) ~> (loading_lock.holder # b)

\* A background load has ended ready, and a later call holds the lock and loads.
C36_Witness ==
    \E b, c \in BgIds :
        /\ bg[b].pc = "done" /\ bg[b].nloads = 1
        /\ loading_states[bg[b].model_id].status = "ready"
        /\ loading_lock.holder = c /\ bg[c].pc \in ThreadPcs

\* C37: a callback in the list of a job was registered by a handler that
\* found the job queued or processing.
C37_NoCallbackForTerminal ==
    \A j \in JobIds :
        \A o \in Range(progress_callbacks[j].list) :
            ws[o].status0 \in {"queued", "processing"}

\* C38: a step of a load changes the slot of a variant other than its own only
\* from ready to idle and only when that variant's model is no longer stored,
\* and there is one slot for each known variant.
C38_OtherSlotsKept ==
    [][/\ DOMAIN loading_states' = Variants
       /\ \A w \in Variants :
             loading_states'[w] # loading_states[w] =>
                \/ fg' # fg /\ w \in {fg.model_id, fg'.model_id}
                \/ \E b \in BgIds : bg'[b] # bg[b] /\ w \in {bg[b].model_id, bg'[b].model_id}
                \/ /\ loading_states[w].status = "ready"
                   /\ loading_states'[w].status = "idle"
                   /\ ~is_loaded(w)]_vars

\* ------------------------------------------------- publish_release
\* The release tags a request can name.
Tags == {"v1", "v2"}

\* _create_sound_pack_zip: the jobs of job_ids that get_job finds and whose
\* audio file get_audio_path finds; none of them stands for the return of None.
create_sound_pack_zip(job_ids) ==
    {j \in job_ids : /\ get_job(j) # NoJobObject
                     /\ jobs[j].audio_path # NoPath
                     /\ jobs[j].audio_path \in files}

\* publish_release, lines 55-143, as one step of the event loop (it has no
\* suspension point). token: a token is given or configured; raises: the call
\* of the GitHub API that raises, if any ("repo_not_found" is the 404 of
\* gh.get_repo; "get_repo" and "get_release" are GithubExceptions other than
\* the 404s the code tests for).
publish_release(token, tag, job_ids, raises) ==
    /\ LoopFree
    /\ github.n < MaxPublish
    /\ LET exists == tag \in github.releases
           packed == create_sound_pack_zip(job_ids)
           Failed(error) ==
               [github EXCEPT !.n = @ + 1,
                              !.reply = PublishResponse("failed", error, FALSE, FALSE, {})]
       IN  github' =
             IF ~token THEN Failed("GitHub token not provided")
             ELSE IF raises = "repo_not_found" THEN Failed("Repository not found")
             ELSE IF raises = "get_repo" THEN Failed("GitHub API error")
             ELSE IF raises = "get_release" THEN Failed("GitHub API error")
             ELSE IF exists THEN Failed("Release already exists")
             ELSE IF packed = {} THEN Failed("No valid audio files found")
             ELSE IF raises = "create_git_release" THEN Failed("GitHub API error")
             ELSE IF raises = "upload_asset_from_memory"
             THEN [releases |-> github.releases \cup {tag},
                   assets |-> github.assets,
                   n |-> github.n + 1,
                   reply |-> PublishResponse("failed", "GitHub API error", TRUE,
                                             TRUE, packed)]
             ELSE [releases |-> github.releases \cup {tag},
                   assets |-> github.assets \cup {tag},
                   n |-> github.n + 1,
                   reply |-> PublishResponse("ok", None, TRUE, TRUE, packed)]
    /\ UNCHANGED <<jobs, job_store, progress_callbacks, files,
                   torchaudio_available, gen, ws, running, notified, sent,
                   delete_reply>>

\* POST /publish with any request and any behaviour of the GitHub API.
PublishCall ==
    /\ \E token \in BOOLEAN, tag \in Tags, job_ids \in SUBSET JobIds,
          raises \in {None, "repo_not_found", "get_repo", "get_release",
                      "create_git_release", "upload_asset_from_memory"} :
           publish_release(token, tag, job_ids, raises)
    /\ UNCHANGED rm_vars

NextPublish ==
    \/ HubSubmit
    \/ FgUnloadKeys \/ FgInit \/ FgWeightsState \/ FgLoad \/ FgDeviceState
    \/ FgStoreModel \/ FgStoreConfig \/ FgStoreCurrent \/ FgReady
    \/ \E j \in JobIds :
          \/ GenStart(j) \/ GenLoad(j) \/ GenLoaded(j)
          \/ GenParams(j) \/ GenDispatch(j) \/ GenExecutorDone(j)
          \/ GenPostprocess(j) \/ GenSave(j) \/ GenReturn(j) \/ GenExcept(j)
          \/ GenReraise(j) \/ delete_audio(j)
    \/ PublishCall

\* The audio service with one job, and releases published from its files.
SpecPublish == Init /\ [][NextPublish]_vars

\* C39: a publish_release call that answered success=False has created no
\* release, and a call that created a release had found the tag unused and
\* had packed at least one audio file.
C39_AllOrNothing ==
    /\ github.reply.status = "failed" => ~github.reply.created
    /\ github.reply.created => (github.reply.unused /\ github.reply.packed # {})

====
